---- MODULE Spec2Model ----
(***************************************************************************)
(* Model of the batch optimization pipeline of src/main.py                 *)
(* (ImageOptimizerApp): the Tk control context (event handlers run one at  *)
(* a time by the main loop), the single worker thread that runs            *)
(* process_images, and the event posted with root.after that carries the   *)
(* outcome back to the control context.                                    *)
(***************************************************************************)
EXTENDS Integers, Sequences, FiniteSets, TLC

(***************************************************************************)
(* Bounds of the model.                                                    *)
(***************************************************************************)
NumFiles == 3       \* distinct candidate image paths
MaxList == 2        \* longest selection list the model lets build up

Files == 1..NumFiles

(* What processing a path does: optimize_image catches a failure and       *)
(* returns False ("corrupt"), optimize_image returns True ("valid"), or an *)
(* exception raised in the try block of process_images, by status_var.set  *)
(* called off the main thread, reaches its handler ("raises").             *)
Kind(f) ==
    CASE f % 3 = 1 -> "corrupt"
      [] f % 3 = 2 -> "valid"
      [] OTHER -> "raises"

(* os.path.dirname of a candidate path: the paths lie in two directories.  *)
dirname(f) == f % 2

(* Non-empty sequences over S of length at most n.                         *)
SeqsUpTo(S, n) == UNION {[1..k -> S] : k \in 1..n}

VARIABLES
    selected_files,     \* self.selected_files: the contents of the list object
    output_dir_var,     \* self.output_dir_var (text of the output entry)
    processing,         \* self.processing
    optimize_btn,       \* state of self.optimize_btn: "normal" | "disabled"
    cancel_btn,         \* state of self.cancel_btn
    status_var,         \* self.status_var, as <<text key, format arguments>>
    progress_var,       \* self.progress_var
    pc,                 \* position of the worker thread
    files,              \* process_images: the list object bound to `files`
    aliased,            \* self.selected_files is still that same list object
    settings,           \* process_images: the settings dict
    total_files, processed, successful, failed, \* locals of process_images
    idx,                \* number of items the for loop has fetched
    afterQueue,         \* events posted with root.after, not yet run
    dialog,             \* the message box the last handler run by the main
                        \* loop showed, as <<title key, format arguments>>
    \* History variables (observations, not program state)
    dirFailed,          \* os.makedirs raised in the last start_optimization
    startFiles,         \* the selection when the current run was started
    selChanged,         \* a selection handler ran since the run was started
    exitReason,         \* how the for loop of the current run ended
    visited,            \* paths the loop body has run for in this run, in order
    notes,              \* notifications of this run in the order observed
    workerWrites,       \* Tk variables the worker thread has set itself
    liveWorkers,        \* worker threads started and not yet returned
    earlierCancel,      \* cancel was requested in a run before the current one
    \* One call of a function examined on its own (see the specifications
    \* at the end): where the call stands, its inputs, its results
    callPc, call, ret

vars == <<selected_files, output_dir_var, processing, optimize_btn, cancel_btn,
          status_var, progress_var, pc, files, aliased, settings, total_files,
          processed, successful, failed, idx, afterQueue, dialog,
          dirFailed, startFiles, selChanged, exitReason, visited, notes,
          workerWrites, liveWorkers, earlierCancel, callPc, call,
          ret>>

(* The state of the application and of its run, and the state of a single  *)
(* call examined on its own.                                               *)
appVars == <<selected_files, output_dir_var, processing, optimize_btn,
             cancel_btn, status_var, progress_var, pc, files, aliased,
             settings, total_files, processed, successful, failed, idx,
             afterQueue, dialog, dirFailed, startFiles, selChanged,
             exitReason, visited, notes, workerWrites, liveWorkers,
             earlierCancel>>
callVars == <<callPc, call, ret>>

workerLocals == <<files, settings, total_files, processed, successful, failed,
                  idx>>
history == <<dirFailed, startFiles, selChanged, exitReason, visited, notes,
             workerWrites, liveWorkers, earlierCancel>>

(* Output directory texts: empty, a directory the user chose, or the       *)
(* "optimized" subfolder of a source directory.                            *)
EmptyDir == <<"empty">>
ChosenDir == <<"chosen">>
OptimizedIn(d) == <<"optimized", d>>

(* No settings dict exists before the first run.                           *)
NoSettings == [output_dir |-> EmptyDir]

(* The worker thread is between its start and its return.                  *)
WorkerAlive == pc \in {"init", "loop", "item", "transform"}

(* A run is under way: started, outcome not yet delivered.                 *)
RunActive == WorkerAlive \/ afterQueue # <<>>

AppInit ==
    /\ selected_files = <<>>
    /\ output_dir_var = EmptyDir
    /\ processing = FALSE
    /\ optimize_btn = "normal"
    /\ cancel_btn = "disabled"
    /\ status_var = <<"ready">>
    /\ progress_var = 0
    /\ pc = "none"
    /\ files = <<>>
    /\ aliased = FALSE
    /\ settings = NoSettings
    /\ total_files = 0
    /\ processed = 0
    /\ successful = 0
    /\ failed = 0
    /\ idx = 0
    /\ afterQueue = <<>>
    /\ dialog = <<"none">>
    /\ dirFailed = FALSE
    /\ startFiles = <<>>
    /\ selChanged = FALSE
    /\ exitReason = "none"
    /\ visited = <<>>
    /\ notes = <<>>
    /\ workerWrites = {}
    /\ liveWorkers = 0
    /\ earlierCancel = FALSE

(* No call is examined while the application runs.                         *)
NoCall == <<>>

Init ==
    /\ AppInit
    /\ callPc = "none"
    /\ call = NoCall
    /\ ret = NoCall

(***************************************************************************)
(* Control context: the handlers the Tk main loop runs, one at a time.     *)
(***************************************************************************)

(* What a file dialog can return: a non-empty choice of distinct paths in  *)
(* the order the dialog lists them.                                        *)
Increasing(s) == \A i \in 1..(Len(s) - 1) : s[i] < s[i + 1]
DialogChoices == {s \in SeqsUpTo(Files, MaxList) : Increasing(s)}

(* The folders the user can pick: one per source directory, and one more   *)
(* that holds no file with a supported extension.                          *)
Folders == {0, 1, 2}

(* select_folder's os.walk with the extension filter: the image paths      *)
(* under the folder, in traversal order.                                   *)
walk(folder) ==
    LET found == {f \in Files : dirname(f) = folder}
    IN  CHOOSE s \in [1..Cardinality(found) -> found] : Increasing(s)

(* select_files: a non-empty dialog result is bound to the attribute as a  *)
(* NEW list object; a cancelled dialog changes nothing.                    *)
select_files ==
    /\ UNCHANGED callVars
    /\ \E chosen \in DialogChoices :
           /\ selected_files' = chosen
           /\ aliased' = FALSE
           /\ selChanged' = TRUE
           /\ dialog' = <<"none">>
           /\ UNCHANGED <<output_dir_var, processing, optimize_btn, cancel_btn,
                          status_var, progress_var, pc, workerLocals,
                              afterQueue,
                          dirFailed, startFiles, earlierCancel, exitReason,
                          visited, notes, workerWrites, liveWorkers>>

(* select_folder: the image files found are appended IN PLACE with         *)
(* list.extend, so a worker iterating the same list object sees them.      *)
select_folder ==
    /\ UNCHANGED callVars
    /\ \E folder \in Folders :
           LET new_files == walk(folder)
           IN  IF new_files # <<>>
               THEN /\ Len(selected_files) + Len(new_files) <= MaxList
                    /\ selected_files' = selected_files \o new_files
                    /\ files' = IF aliased /\ WorkerAlive
                                THEN files \o new_files ELSE files
                    /\ selChanged' = TRUE
                    /\ dialog' = <<"none">>
                    /\ UNCHANGED <<output_dir_var, processing, optimize_btn,
                                   cancel_btn, status_var, progress_var, pc,
                                   aliased, settings, total_files, processed,
                                   successful, failed, idx, afterQueue,
                                   dirFailed, startFiles, earlierCancel,
                                       exitReason, visited, notes,
                                   workerWrites, liveWorkers>>
               ELSE /\ dialog' = <<"no_images">>
                    /\ UNCHANGED <<selected_files, output_dir_var, processing,
                                   optimize_btn, cancel_btn, status_var,
                                   progress_var, pc, workerLocals, aliased,
                                   afterQueue, history>>

(* clear_selection: the attribute is bound to a new empty list.            *)
clear_selection ==
    /\ UNCHANGED callVars
    /\ selected_files' = <<>>
    /\ aliased' = FALSE
    /\ selChanged' = TRUE
    /\ dialog' = <<"none">>
    /\ UNCHANGED <<output_dir_var, processing, optimize_btn, cancel_btn,
                   status_var, progress_var, pc, workerLocals, afterQueue,
                   dirFailed, startFiles, earlierCancel, exitReason, visited,
                       notes,
                   workerWrites, liveWorkers>>

(* select_output_dir: a chosen directory becomes the entry's text.         *)
select_output_dir ==
    /\ UNCHANGED callVars
    /\ output_dir_var' = ChosenDir
    /\ dialog' = <<"none">>
    /\ UNCHANGED <<selected_files, processing, optimize_btn, cancel_btn,
                   status_var, progress_var, pc, workerLocals, aliased,
                   afterQueue, history>>

(* Variant of makedirs_fails: the OSError is not treated as fatal.         *)
makedirs_fails_ignored(mk) == FALSE

(* os.makedirs raises OSError: start_optimization shows the error and      *)
(* returns.  mk is what the file system does with the output directory:    *)
(* "exists" (os.path.exists is true), "created" or "oserror".              *)
makedirs_fails(mk) == mk = "oserror"

(* The output directory start_optimization uses: the entry's text, or when *)
(* that is empty the "optimized" subfolder next to the first selected file.*)
start_output_dir(text, sel) ==
    IF text = EmptyDir THEN OptimizedIn(dirname(sel[1])) ELSE text

(* Variant of start_buttons: the start button is left enabled.             *)
start_buttons_left_enabled == <<"normal", "normal">>

(* Variant of start_flag: the flag is left as the last run left it.        *)
start_flag_kept(old) == old

(* self.processing = True at the start of a run, whatever it was.          *)
start_flag(old) == TRUE

(* The button states start_optimization sets for the processing state:    *)
(* <<optimize_btn, cancel_btn>>.                                           *)
start_buttons == <<"disabled", "normal">>

(* start_optimization, the command of optimize_btn: Tk runs it only while  *)
(* the button is enabled.  The thread is given self.selected_files itself  *)
(* (the list object, not a copy).                                          *)
start_optimization ==
    /\ UNCHANGED callVars
    /\ optimize_btn = "normal"
    /\ IF selected_files = <<>>
       THEN /\ dialog' = <<"no_files_warn">>
            /\ dirFailed' = FALSE
            /\ UNCHANGED <<selected_files, output_dir_var, processing,
                           optimize_btn, cancel_btn, status_var, progress_var,
                           pc, workerLocals, aliased, afterQueue, startFiles,
                               earlierCancel,
                           selChanged, exitReason, visited, notes,
                           workerWrites, liveWorkers>>
       ELSE \E mk \in {"exists", "created", "oserror"} :
            LET output_dir == start_output_dir(output_dir_var, selected_files)
            IN  /\ output_dir_var' = output_dir
                /\ dirFailed' = (mk = "oserror")
                /\ IF makedirs_fails(mk)
                   THEN /\ dialog' = <<"dir_error">>
                        /\ UNCHANGED <<selected_files, processing, optimize_btn,
                                       cancel_btn, status_var, progress_var,
                                       pc, workerLocals, aliased, afterQueue,
                                       startFiles, earlierCancel, selChanged,
                                           exitReason,
                                       visited, notes, workerWrites,
                                       liveWorkers>>
                   ELSE /\ settings' = [output_dir |-> output_dir]
                        /\ processing' = start_flag(processing)
                        /\ optimize_btn' = start_buttons[1]
                        /\ cancel_btn' = start_buttons[2]
                        /\ progress_var' = 0
                        /\ status_var' = <<"starting">>
                        /\ files' = selected_files
                        /\ aliased' = TRUE
                        /\ pc' = "init"
                        /\ liveWorkers' = liveWorkers + 1
                        \* locals of the new thread, not yet assigned
                        /\ total_files' = 0
                        /\ processed' = 0
                        /\ successful' = 0
                        /\ failed' = 0
                        /\ idx' = 0
                        \* observations start afresh with the run
                        /\ startFiles' = selected_files
                        /\ earlierCancel' =
                               (earlierCancel \/ \E i \in DOMAIN notes :
                                                     notes[i] = <<"canceling">>)
                        /\ selChanged' = FALSE
                        /\ exitReason' = "running"
                        /\ visited' = <<>>
                        /\ notes' = <<>>
                        /\ workerWrites' = {}
                        /\ dialog' = <<"none">>
                        /\ UNCHANGED <<selected_files, afterQueue>>

(* Variant of cancel_optimization: the handler resets the buttons and      *)
(* reports the outcome itself instead of leaving that to the worker.       *)
cancel_optimization_reports ==
    /\ UNCHANGED callVars
    /\ cancel_btn = "normal"
    /\ dialog' = IF successful > 0
                 THEN <<"complete", successful, failed, output_dir_var>>
                 ELSE <<"failed", successful + failed>>
    /\ processing' = FALSE
    /\ optimize_btn' = "normal"
    /\ cancel_btn' = "disabled"
    /\ status_var' = <<"canceling">>
    /\ notes' = notes \o <<<<"canceling">>,
                           <<"outcome", successful, failed>>>>
    /\ UNCHANGED <<selected_files, output_dir_var, progress_var, pc,
                   workerLocals, aliased, afterQueue, dirFailed, startFiles,
                       earlierCancel,
                   selChanged, exitReason, visited, workerWrites,
                   liveWorkers>>

(* cancel_optimization, the command of cancel_btn.                         *)
cancel_optimization ==
    /\ UNCHANGED callVars
    /\ cancel_btn = "normal"
    /\ dialog' = <<"none">>
    /\ IF processing
       THEN /\ processing' = FALSE
            /\ status_var' = <<"canceling">>
            /\ notes' = Append(notes, <<"canceling">>)
            /\ UNCHANGED <<selected_files, output_dir_var, optimize_btn,
                           cancel_btn, progress_var, pc, workerLocals, aliased,
                           afterQueue, dirFailed, startFiles, earlierCancel,
                           selChanged, exitReason, visited, workerWrites,
                           liveWorkers>>
       ELSE UNCHANGED <<selected_files, output_dir_var, processing,
                       optimize_btn, cancel_btn, status_var, progress_var, pc,
                       workerLocals, aliased, afterQueue, history>>

(* Variant of outcome_message: the completion text leaves out the count of *)
(* failures.                                                               *)
outcome_message_without_failed(ok, bad, dir) ==
    IF ok > 0 THEN <<"complete", ok, dir>> ELSE <<"failed", ok + bad>>

(* The message box finish_optimization shows, as <<title key, format       *)
(* arguments>>: "Optimization Complete" with the two counts and the text   *)
(* of the output entry when anything succeeded, else "Optimization Failed" *)
(* with the number of images.                                              *)
outcome_message(ok, bad, dir) ==
    IF ok > 0 THEN <<"complete", ok, bad, dir>> ELSE <<"failed", ok + bad>>

(* Variant of finish_buttons: the cancel button is left enabled.           *)
finish_buttons_cancel_left == <<"normal", "normal">>

(* The states finish_optimization gives the start and the cancel button.   *)
finish_buttons == <<"normal", "disabled">>

(* finish_optimization, run by the main loop for an event that root.after  *)
(* posted: resets the flag and the buttons and shows the outcome.          *)
finish_optimization ==
    /\ UNCHANGED callVars
    /\ afterQueue # <<>>
    /\ LET ok == Head(afterQueue)[1]
           bad == Head(afterQueue)[2]
       IN  /\ afterQueue' = Tail(afterQueue)
           /\ processing' = FALSE
           /\ optimize_btn' = finish_buttons[1]
           /\ cancel_btn' = finish_buttons[2]
           /\ dialog' = outcome_message(ok, bad, output_dir_var)
           /\ notes' = Append(notes, <<"outcome", ok, bad>>)
    /\ UNCHANGED <<selected_files, output_dir_var, status_var, progress_var,
                   pc, workerLocals, aliased, dirFailed, startFiles,
                       earlierCancel, selChanged,
                   exitReason, visited, workerWrites, liveWorkers>>

(***************************************************************************)
(* Worker context: process_images, run by the thread start_optimization    *)
(* starts.  Steps that touch only the thread's locals are merged with the  *)
(* next step that reads or writes shared state.                            *)
(***************************************************************************)

(* Variants of loop_step: a loop that never breaks on the flag, and a loop *)
(* that reads the flag before it asks the iterator for the next item.      *)
loop_step_never_breaks(i, n, flag) ==
    IF i >= n THEN "exhausted" ELSE "body"
loop_step_flag_first(i, n, flag) ==
    IF ~flag THEN "break"
    ELSE IF i >= n THEN "exhausted"
    ELSE "body"

(* How the for loop goes on once idx items were fetched from a list of n:  *)
(* the iterator ends the loop when the list is exhausted; otherwise the    *)
(* item is fetched and the flag is read, and the loop breaks when cleared. *)
loop_step(i, n, flag) ==
    IF i >= n THEN "exhausted"
    ELSE IF ~flag THEN "break"
    ELSE "body"

(* Variant of count_result: the except branch forgets the failure.         *)
count_result_drops_raise(kind, ok, bad) ==
    IF kind = "valid" THEN <<ok + 1, bad>>
    ELSE IF kind = "corrupt" THEN <<ok, bad + 1>>
    ELSE <<ok, bad>>

(* The counters after one item: success counted on True, failure on False  *)
(* and in the except branch.                                               *)
count_result(kind, ok, bad) ==
    IF kind = "valid" THEN <<ok + 1, bad>> ELSE <<ok, bad + 1>>

(* Variant of after_finish: the worker returns without posting the event.  *)
after_finish_lost(queue, ok, bad) == queue

(* Variant of after_finish: the outcome event is posted twice.             *)
after_finish_twice(queue, ok, bad) == queue \o <<<<ok, bad>>, <<ok, bad>>>>

(* root.after(0, self.finish_optimization, successful, failed)             *)
after_finish(queue, ok, bad) == Append(queue, <<ok, bad>>)

(* The status text is refreshed after the item of index i (0-based) when   *)
(* i % 5 == 0 or i is the last index by the total taken at the start.      *)
StatusEvery == 5
status_due(i, total) == i % StatusEvery = 0 \/ i = total - 1

(* total_files = len(files) and the counters, before the loop.             *)
worker_init ==
    /\ UNCHANGED callVars
    /\ pc = "init"
    /\ total_files' = Len(files)
    /\ processed' = 0
    /\ successful' = 0
    /\ failed' = 0
    /\ idx' = 0
    /\ pc' = "loop"
    /\ UNCHANGED <<selected_files, output_dir_var, processing, optimize_btn,
                   cancel_btn, status_var, progress_var, files, aliased,
                   settings, afterQueue, dialog, history>>

(* One pass through the loop head; on leaving the loop the worker posts    *)
(* finish_optimization and returns.                                        *)
worker_next ==
    /\ UNCHANGED callVars
    /\ pc = "loop"
    /\ LET step == loop_step(idx, Len(files), processing)
       IN  IF step = "body"
           THEN /\ idx' = idx + 1
                /\ pc' = "item"
                /\ UNCHANGED <<afterQueue, exitReason, liveWorkers>>
           ELSE /\ afterQueue' = after_finish(afterQueue, successful, failed)
                /\ exitReason' = step
                /\ liveWorkers' = liveWorkers - 1
                /\ pc' = "done"
                /\ UNCHANGED idx
    /\ UNCHANGED <<selected_files, output_dir_var, processing, optimize_btn,
                   cancel_btn, status_var, progress_var, files, aliased,
                   settings, total_files, processed, successful, failed,
                   dialog, dirFailed, startFiles, earlierCancel, selChanged,
                       visited, notes,
                   workerWrites>>

(* The worker sets the "Processing <name>..." status itself.               *)
worker_begin_item ==
    /\ UNCHANGED callVars
    /\ pc = "item"
    /\ status_var' = <<"processing", files[idx]>>
    /\ workerWrites' = workerWrites \cup {"status_var"}
    /\ notes' = Append(notes, <<"processing", idx>>)
    /\ pc' = "transform"
    /\ UNCHANGED <<selected_files, output_dir_var, processing, optimize_btn,
                   cancel_btn, progress_var, workerLocals, aliased, afterQueue,
                   dialog, dirFailed, startFiles, earlierCancel, selChanged,
                       exitReason,
                   visited, liveWorkers>>

(* optimize_image returns (or the except branch runs), the counters and    *)
(* the progress value are updated, and the status text when it is due.     *)
(* progress_var holds the whole percents of (processed / total_files)*100. *)
worker_finish_item ==
    /\ UNCHANGED callVars
    /\ pc = "transform"
    /\ LET counts == count_result(Kind(files[idx]), successful, failed)
           due == status_due(idx - 1, total_files)
       IN  /\ successful' = counts[1]
           /\ failed' = counts[2]
           /\ processed' = processed + 1
           /\ progress_var' = ((processed + 1) * 100) \div total_files
           /\ status_var' = IF due
                            THEN <<"progress", processed + 1, total_files,
                                   counts[1], counts[2]>>
                            ELSE status_var
           /\ notes' = IF due
                       THEN notes \o <<<<"progress", idx>>, <<"status", idx>>>>
                       ELSE Append(notes, <<"progress", idx>>)
           /\ workerWrites' = workerWrites \cup
                  (IF due THEN {"progress_var", "status_var"}
                          ELSE {"progress_var"})
    /\ visited' = Append(visited, files[idx])
    /\ pc' = "loop"
    /\ UNCHANGED <<selected_files, output_dir_var, processing, optimize_btn,
                   cancel_btn, files, aliased, settings, total_files, idx,
                   afterQueue, dialog, dirFailed, startFiles, earlierCancel,
                       selChanged,
                   exitReason, liveWorkers>>

Next ==
    \/ select_files
    \/ select_folder
    \/ clear_selection
    \/ select_output_dir
    \/ start_optimization
    \/ cancel_optimization
    \/ finish_optimization
    \/ worker_init
    \/ worker_next
    \/ worker_begin_item
    \/ worker_finish_item

Spec == Init /\ [][Next]_vars

(***************************************************************************)
(* Properties                                                              *)
(***************************************************************************)

(* The worker's locals are assigned (the thread is past line 638).         *)
LocalsBound == pc \in {"loop", "item", "transform", "done"}

IsPrefix(s, t) == Len(s) <= Len(t) /\ SubSeq(t, 1, Len(s)) = s

CountIn(s, kinds) == Cardinality({i \in DOMAIN s : Kind(s[i]) \in kinds})

NotesOf(kind) == {i \in DOMAIN notes : notes[i][1] = kind}

OutcomeDelivered == NotesOf("outcome") # {}

(* C1: in every state of a run successful + failed = processed and         *)
(* processed <= total_files, whatever the control context does meanwhile.  *)
C1_CountersWithinTotal ==
    LocalsBound =>
        /\ successful + failed = processed
        /\ processed <= total_files

(* C2: when the worker finds the flag cleared at the loop head after k     *)
(* items, it leaves the loop at once: the k items visited so far are all   *)
(* that is transformed or counted, none of the others is counted as a      *)
(* failure, and the outcome it posts and that is delivered has             *)
(* successful + failed = k.                                                *)
C2_CancelStopsAtBoundary ==
    /\ [][(pc = "loop" /\ ~processing /\ pc' # "loop") =>
            /\ pc' = "done"
            /\ visited' = visited
            /\ <<successful', failed', processed'>>
                   = <<successful, failed, processed>>
            /\ successful + failed = Len(visited)
            /\ afterQueue' = Append(afterQueue, <<successful, failed>>)]_vars
    /\ [](exitReason = "break" =>
            /\ pc = "done"
            /\ Len(visited) = idx
            /\ idx < Len(files)
            /\ visited = SubSeq(files, 1, idx)
            /\ successful + failed = idx
            /\ failed = CountIn(visited, {"corrupt", "raises"})
            /\ \A i \in NotesOf("outcome") :
                   notes[i][2] + notes[i][3] = idx)

C2_Witness ==
    /\ exitReason = "break"
    /\ idx = 1
    /\ Len(files) = 2
    /\ notes[Len(notes)] = <<"outcome", successful, failed>>

(* C3: a started run delivers its outcome exactly once: the one outcome of *)
(* the run is still to be posted by the live worker, or posted and waiting *)
(* in the event queue, or delivered; it is delivered only after the worker *)
(* left the loop, with the worker's counts, and the start button is not    *)
(* enabled again before it.                                                *)
C3_OutcomeExactlyOnce ==
    /\ Cardinality(NotesOf("outcome")) + Len(afterQueue)
           + (IF WorkerAlive THEN 1 ELSE 0)
       = (IF pc = "none" THEN 0 ELSE 1)
    /\ OutcomeDelivered =>
           /\ pc = "done"
           /\ exitReason \in {"exhausted", "break"}
           /\ \A i \in NotesOf("outcome") :
                  notes[i] = <<"outcome", successful, failed>>
    /\ (pc # "none" /\ optimize_btn = "normal") => OutcomeDelivered

C3_Witness ==
    /\ OutcomeDelivered
    /\ exitReason = "break"
    /\ processed = 1

(* C5: the worker thread sets none of the Tk variables itself: every       *)
(* change of status text, progress value or button state comes from a      *)
(* handler run by the main loop.                                           *)
C5_WorkerWritesNothing == workerWrites = {}

(* C6: a run visits exactly the selection as it was when the run started,  *)
(* in that order, whatever selection handlers run meanwhile.               *)
C6_VisitsSelectionAtStart ==
    /\ IsPrefix(visited, startFiles)
    /\ exitReason = "exhausted" => visited = startFiles

(* The item a notification is about, 0 when it is about none.              *)
ItemOf(n) == IF n[1] \in {"processing", "progress", "status"} THEN n[2] ELSE 0

(* C4: within a run the notifications of item i come before those of item *)
(* i+1, each item's "processing" label before its progress update, and     *)
(* the outcome is the last notification of the run.                        *)
C4_NotificationsInOrder ==
    /\ \A i, j \in DOMAIN notes :
           (i < j /\ ItemOf(notes[i]) > 0 /\ ItemOf(notes[j]) > 0) =>
               /\ ItemOf(notes[i]) <= ItemOf(notes[j])
               /\ (ItemOf(notes[i]) = ItemOf(notes[j])
                       => notes[j][1] # "processing")
    /\ \A i \in NotesOf("outcome") : i = Len(notes)

C4_Witness ==
    /\ OutcomeDelivered
    /\ Len(visited) = 2
    /\ NotesOf("canceling") # {}

(* C7: from the start of a run until its outcome is delivered the start    *)
(* button is disabled and no step starts a worker, also after cancel has   *)
(* cleared the processing flag; so at most one worker is ever alive.       *)
C7_OneRunAtATime ==
    /\ [](liveWorkers <= 1)
    /\ [](RunActive => optimize_btn = "disabled")
    /\ [][RunActive => liveWorkers' <= liveWorkers]_vars

C7_Witness ==
    /\ ~processing
    /\ pc = "transform"
    /\ optimize_btn = "disabled"
    /\ liveWorkers = 1

(* What a rejected start leaves alone: the flag stays false, no worker is  *)
(* started, nothing is processed and no notification is produced.          *)
NothingStarted ==
    /\ ~processing /\ ~processing'
    /\ UNCHANGED <<pc, liveWorkers, workerLocals, afterQueue, visited, notes,
                   status_var, progress_var, optimize_btn, cancel_btn,
                   exitReason, startFiles, earlierCancel>>

(* C8: a start request with an empty selection, or whose output directory  *)
(* cannot be created, is rejected before anything of a run happens.        *)
C8_RejectedStartDoesNothing ==
    /\ [][dirFailed' => NothingStarted]_vars
    /\ [][(selected_files = <<>> /\ optimize_btn = "normal")
              => NothingStarted]_vars
    /\ [][dialog' \in {<<"no_files_warn">>, <<"dir_error">>}
              => NothingStarted]_vars

C8_Witness ==
    /\ dirFailed
    /\ dialog = <<"dir_error">>
    /\ selected_files # <<>>
    /\ OutcomeDelivered

(* No cancel was requested in the current run.                             *)
NoCancel == NotesOf("canceling") = {}

(* C9: without cancellation each failing item (False returned, or an       *)
(* exception) adds one to failed and the loop goes on: the items of the    *)
(* list are visited once each in list order, the loop ends by exhaustion   *)
(* and the counts delivered are the numbers of succeeding and of failing   *)
(* items.                                                                  *)
C9_FailuresCountedBatchContinues ==
    /\ LocalsBound =>
           /\ visited = SubSeq(files, 1, Len(visited))
           /\ successful = CountIn(visited, {"valid"})
           /\ failed = CountIn(visited, {"corrupt", "raises"})
    /\ (pc = "done" /\ NoCancel) =>
           /\ exitReason = "exhausted"
           /\ visited = files
           /\ IsPrefix(startFiles, visited)
           /\ \A i \in NotesOf("outcome") :
                  notes[i] = <<"outcome", CountIn(files, {"valid"}),
                               CountIn(files, {"corrupt", "raises"})>>

C9_Witness ==
    /\ OutcomeDelivered
    /\ NoCancel
    /\ files = <<1, 2>>
    /\ Kind(files[1]) = "corrupt"
    /\ successful = 1
    /\ failed = 1

(* C10: for a run whose selection no handler changed, at the outcome       *)
(* processed = total_files exactly when the loop ended by exhaustion; a    *)
(* cancel that comes after the last flag check still ends by exhaustion,   *)
(* and a run that ended on the flag has processed < total_files.           *)
C10_CompleteIffAllProcessed ==
    (pc = "done" /\ ~selChanged) =>
        /\ (processed = total_files) <=> (exitReason = "exhausted")
        /\ exitReason = "break" => processed < total_files

C10_Witness ==
    /\ OutcomeDelivered
    /\ ~selChanged
    /\ exitReason = "exhausted"
    /\ ~NoCancel
    /\ processed = total_files

(* The message box on screen is the outcome of the run.                    *)
OutcomeShown == dialog[1] \in {"complete", "failed"}

(* C11: a run that ended on the cancel flag is not reported as an error:   *)
(* its outcome is the "Optimization Failed" box only if an item it         *)
(* processed failed, also when it was cancelled before any item.           *)
C11_CancelledNotAnError ==
    (OutcomeShown /\ exitReason = "break") =>
        /\ \A i \in NotesOf("outcome") :
               notes[i] = <<"outcome", successful, failed>>
        /\ dialog[1] = "failed" => failed > 0

(* The three variants of an outcome.                                       *)
Variant(ok, bad) ==
    IF ok = 0 THEN "all_failure"
    ELSE IF bad = 0 THEN "all_success"
    ELSE "partial_success"

C16_DefaultDirFollowsSelection ==
    (pc # "none" /\ settings.output_dir # ChosenDir) =>
        settings.output_dir = OptimizedIn(dirname(startFiles[1]))

(* Progress updates of the current run written after cancel was requested. *)
ProgressAfterCancel ==
    {i \in NotesOf("progress") : \E c \in NotesOf("canceling") : c < i}

(* C17: cancel does not interrupt the item being transformed, which is     *)
(* still counted, and takes effect at the next loop head: at most one item *)
(* is processed after the request.                                         *)
C17_CancelIsCooperative ==
    /\ [][(pc = "transform" /\ ~processing /\ pc' # pc) =>
              (pc' = "loop" /\ processed' = processed + 1)]_vars
    /\ [](Cardinality(ProgressAfterCancel) <= 1)
    /\ [](~NoCancel /\ pc = "done" =>
              Cardinality(NotesOf("progress")) = processed)

C17_Witness ==
    /\ pc = "done"
    /\ exitReason = "break"
    /\ Cardinality(ProgressAfterCancel) = 1
    /\ processed < Len(files)

(* C18: the flag is set anew when a run starts, so a cancel of an earlier  *)
(* run never stops a later one: until cancel is requested in the current   *)
(* run its flag stays set, and a run without such a request ends by        *)
(* exhaustion with all its items visited.                                  *)
C18_FlagResetAtStart ==
    /\ (WorkerAlive /\ NoCancel) => processing
    /\ exitReason = "break" => ~NoCancel
    /\ (pc = "done" /\ NoCancel) => Len(visited) = Len(files)

C18_Witness ==
    /\ earlierCancel
    /\ pc = "done"
    /\ NoCancel
    /\ exitReason = "exhausted"
    /\ Len(visited) = 2

(***************************************************************************)
(* The settings start_optimization reads from the two size entries.        *)
(* A text is a sequence of characters; "sup2" stands for a character such  *)
(* as the superscript two, which str.isdigit accepts and int rejects.      *)
(***************************************************************************)
MaxText == 2        \* longest text typed into a size entry

Chars == {"0", "1", "7", "-", "a", "sup2"}

DecimalDigits == <<"0", "1", "2", "3", "4", "5", "6", "7", "8", "9">>

IsDecimal(c) == \E d \in DOMAIN DecimalDigits : DecimalDigits[d] = c

DigitValue(c) == (CHOOSE d \in DOMAIN DecimalDigits : DecimalDigits[d] = c) - 1

Texts == {<<>>} \cup SeqsUpTo(Chars, MaxText)

(* str.isdigit: at least one character, and every character a digit (of    *)
(* any script, superscripts included).                                     *)
isdigit(text) ==
    /\ Len(text) > 0
    /\ \A i \in DOMAIN text : IsDecimal(text[i]) \/ text[i] = "sup2"

(* int(text) raises ValueError for a text that is not a decimal numeral.   *)
int_raises(text) ==
    \/ Len(text) = 0
    \/ \E i \in DOMAIN text : ~IsDecimal(text[i])

(* int(text) of a decimal numeral, leading zeros allowed.                  *)
RECURSIVE int(_)
int(text) ==
    IF Len(text) = 0 THEN 0
    ELSE 10 * int(SubSeq(text, 1, Len(text) - 1)) + DigitValue(text[Len(text)])

DEFAULTS ==
    [max_width |-> <<"1", "9", "2", "0">>,
     max_height |-> <<"1", "0", "8", "0">>]

(* int(text) if text.isdigit() else int(DEFAULTS[key]) raises ValueError   *)
(* when the text passes isdigit and int rejects it.                        *)
setting_raises(text, default) ==
    IF isdigit(text) THEN int_raises(text) ELSE int_raises(default)

(* The value of int(text) if text.isdigit() else int(DEFAULTS[key]).       *)
setting_value(text, default) ==
    IF isdigit(text) THEN int(text) ELSE int(default)

NoValue == [max_width |-> 0, max_height |-> 0, raised |-> "none"]

(* The size entries hold any two texts when START is pressed.              *)
InitSettings ==
    /\ AppInit
    /\ callPc = "settings"
    /\ call \in [max_width_var : Texts, max_height_var : Texts]
    /\ ret = NoValue

(* The two size items of the settings dictionary of start_optimization;    *)
(* an exception of either expression leaves the handler.                   *)
read_settings ==
    /\ callPc = "settings"
    /\ ret' = IF \/ setting_raises(call.max_width_var, DEFAULTS.max_width)
                 \/ setting_raises(call.max_height_var, DEFAULTS.max_height)
              THEN [NoValue EXCEPT !.raised = "ValueError"]
              ELSE [max_width |->
                        setting_value(call.max_width_var, DEFAULTS.max_width),
                    max_height |->
                        setting_value(call.max_height_var, DEFAULTS.max_height),
                    raised |-> "none"]
    /\ callPc' = "settings_read"
    /\ UNCHANGED <<appVars, call>>

NextSettings == read_settings

SpecSettings == InitSettings /\ [][NextSettings]_vars

(* The text is a decimal numeral of a positive integer.                    *)
ParsesPositive(text) ==
    /\ Len(text) > 0
    /\ \A i \in DOMAIN text : IsDecimal(text[i])
    /\ int(text) > 0

(* C14: for every text of the size entries the settings hold a positive    *)
(* integer: the entered value when the text is a positive integer, and     *)
(* 1920 for the width, 1080 for the height for any other text (empty,      *)
(* non-numeric, negative or zero).                                         *)
C14_SizeIsPositiveOrDefault ==
    callPc = "settings_read" =>
        /\ ret.raised = "none"
        /\ ret.max_width = IF ParsesPositive(call.max_width_var)
                           THEN int(call.max_width_var) ELSE 1920
        /\ ret.max_height = IF ParsesPositive(call.max_height_var)
                            THEN int(call.max_height_var) ELSE 1080
        /\ ret.max_width > 0 /\ ret.max_height > 0

(***************************************************************************)
(* The output file name optimize_image builds.  A file name is a sequence  *)
(* of characters, a timestamp the whole seconds read from the clock.       *)
(***************************************************************************)
MaxName == 2        \* longest source file name (characters)
MaxTime == 10       \* latest reading of the clock

NameChars == {"a", "1", "."}

(* The names a file can have: not made of dots only.                       *)
FileNames ==
    {n \in SeqsUpTo(NameChars, MaxName) : \E i \in DOMAIN n : n[i] # "."}

ConvertOptions == {"original", "jpg", "png", "webp"}

(* f".{settings['convert_format'].lower()}"                                *)
ConvertExt(option) ==
    CASE option = "jpg" -> <<".", "j", "p", "g">>
      [] option = "png" -> <<".", "p", "n", "g">>
      [] option = "webp" -> <<".", "w", "e", "b", "p">>

(* Position of the last dot of a name, 0 when it has none.                 *)
LastDot(name) ==
    IF \E i \in DOMAIN name : name[i] = "."
    THEN CHOOSE i \in DOMAIN name :
             /\ name[i] = "."
             /\ \A j \in DOMAIN name : name[j] = "." => j <= i
    ELSE 0

(* os.path.splitext of a base name: the extension starts at the last dot,  *)
(* unless only dots precede it.                                            *)
splitext(name) ==
    LET d == LastDot(name)
    IN  IF d > 0 /\ \E i \in 1..(d - 1) : name[i] # "."
        THEN <<SubSeq(name, 1, d - 1), SubSeq(name, d, Len(name))>>
        ELSE <<name, <<>>>>

(* Variant of str: only the last digit of the number is written.           *)
str_last_digit(t) == <<DecimalDigits[(t % 10) + 1]>>

(* The decimal numeral Python formats a non-negative int as.               *)
RECURSIVE str(_)
str(t) ==
    IF t < 10 THEN <<DecimalDigits[t + 1]>>
    ELSE str(t \div 10) \o <<DecimalDigits[(t % 10) + 1]>>

OptimizedTag == <<"_", "o", "p", "t", "i", "m", "i", "z", "e", "d", "_">>

(* The output file name: the source name with the extension of the target  *)
(* format when names are preserved, else the name without extension, the   *)
(* tag, the timestamp and the extension.                                   *)
output_filename(file_name, convert_format, preserve_names, timestamp) ==
    LET parts == splitext(file_name)
        ext == IF convert_format # "original"
               THEN ConvertExt(convert_format)
               ELSE parts[2]
    IN  IF preserve_names
        THEN parts[1] \o ext
        ELSE parts[1] \o OptimizedTag \o str(timestamp) \o ext

(* Two calls of one run with new names, the clock read later in the second *)
(* call than in the first.                                                 *)
InitNaming ==
    /\ AppInit
    /\ callPc = "naming"
    /\ call \in [first : FileNames, second : FileNames,
                 convert_format : ConvertOptions,
                 preserve_names : {FALSE},
                 t1 : 0..MaxTime, t2 : 0..MaxTime]
    /\ call.t1 < call.t2
    /\ ret = NoCall

(* The naming step of the next call of optimize_image.                     *)
name_output ==
    /\ callPc = "naming"
    /\ Len(ret) < 2
    /\ ret' = Append(ret,
                     IF Len(ret) = 0
                     THEN output_filename(call.first, call.convert_format,
                                          call.preserve_names, call.t1)
                     ELSE output_filename(call.second, call.convert_format,
                                          call.preserve_names, call.t2))
    /\ callPc' = IF Len(ret) = 1 THEN "named" ELSE "naming"
    /\ UNCHANGED <<appVars, call>>

NextNaming == name_output

SpecNaming == InitNaming /\ [][NextNaming]_vars

(* C15: with names not preserved, two calls of a run given distinct        *)
(* timestamps never produce the same output file name, also for two        *)
(* sources with the same base name and extension.                          *)
C15_DistinctTimestampsDistinctNames ==
    (callPc = "named" /\ ~call.preserve_names /\ call.t1 # call.t2) =>
        ret[1] # ret[2]

C15_Witness ==
    /\ callPc = "named"
    /\ call.first = call.second
    /\ call.convert_format = "original"
    /\ splitext(call.first)[2] # <<>>
    /\ Len(str(call.t1)) < Len(str(call.t2))
    /\ ret[1] # ret[2]

(***************************************************************************)
(* The resize step of optimize_image.  A ratio is the fraction <<n, d>> of *)
(* two integers; the program holds it as a double.                         *)
(***************************************************************************)
MaxDim == 6         \* largest width and height of a source image
MaxBound == 4       \* largest max_width and max_height of the settings

(* Variant of needs_resize: the size is computed for every image.          *)
needs_resize_always(w, h, mw, mh) == TRUE

(* original_width > max_width or original_height > max_height              *)
needs_resize(w, h, mw, mh) == w > mw \/ h > mh

(* Variant of ratio: the larger of the two ratios.                         *)
ratio_max(w, h, mw, mh) ==
    IF mw * h >= mh * w THEN <<mw, w>> ELSE <<mh, h>>

(* min(width_ratio, height_ratio) of width_ratio = max_width /             *)
(* original_width and height_ratio = max_height / original_height.         *)
ratio(w, h, mw, mh) ==
    IF mw * h <= mh * w THEN <<mw, w>> ELSE <<mh, h>>

(* The double n / d is the fraction itself: d divides n times a power of   *)
(* two.                                                                    *)
IsExactDouble(n, d) == \E e \in 0..d : (n * 2^e) % d = 0

(* int(k * r) for the double r nearest n / d.  The product is rounded to a *)
(* double and truncated: the floor of k * n / d, except that a product     *)
(* whose true value is an integer may come out just below it when r is not *)
(* n / d exactly (47 * (3 / 47) is 2.9999999999999996), and is then        *)
(* truncated to one less.                                                  *)
scaled(k, r) ==
    LET n == r[1]
        d == r[2]
        floor == (k * n) \div d
    IN  IF (k * n) % d = 0 /\ ~IsExactDouble(n, d)
        THEN {floor - 1, floor}
        ELSE {floor}

(* The sizes (new_width, new_height) the step can compute.                 *)
new_sizes(w, h, mw, mh) ==
    scaled(w, ratio(w, h, mw, mh)) \X scaled(h, ratio(w, h, mw, mh))

Sizes == (1..MaxDim) \X (1..MaxDim)

(* Any source size, any bounds the settings can hold, resize on or off.    *)
InitResize ==
    /\ AppInit
    /\ callPc = "resize"
    /\ call \in [size : Sizes, resize : BOOLEAN,
                 max_width : 0..MaxBound, max_height : 0..MaxBound]
    /\ ret = [size |-> call.size, replaced |-> FALSE]

(* The resize step: the size stays when resize is off or the image fits,   *)
(* else img.resize is called with the computed size.                       *)
resize_image ==
    /\ callPc = "resize"
    /\ LET w == call.size[1]
           h == call.size[2]
       IN  IF call.resize
              /\ needs_resize(w, h, call.max_width, call.max_height)
           THEN \E size \in new_sizes(w, h, call.max_width, call.max_height) :
                    ret' = [size |-> size, replaced |-> TRUE]
           ELSE ret' = [size |-> call.size, replaced |-> FALSE]
    /\ callPc' = "resized"
    /\ UNCHANGED <<appVars, call>>

NextResize == resize_image

SpecResize == InitResize /\ [][NextResize]_vars

(* The ratio of the call, taken as the fraction.                           *)
CallRatio ==
    ratio(call.size[1], call.size[2], call.max_width, call.max_height)

(* v is within one pixel below k times the ratio, and is its floor when    *)
(* the product is not an integer.                                          *)
FloorWithinOnePixel(v, k, r) ==
    /\ v * r[2] <= k * r[1]
    /\ k * r[1] <= (v + 1) * r[2]
    /\ (k * r[1]) % r[2] # 0 => v = (k * r[1]) \div r[2]

BothExceed ==
    /\ call.resize
    /\ call.max_width >= 1 /\ call.max_height >= 1
    /\ call.size[1] > call.max_width
    /\ call.size[2] > call.max_height

ImgDim == 2         \* largest width and height of a source file
ImgBound == 1       \* largest max_width and max_height of its settings

(* The modes Image.open gives the files of a format.                       *)
OpenModes(format) ==
    CASE format = "JPEG" -> {"RGB", "L"}
      [] format = "PNG" -> {"RGB", "RGBA", "LA", "P", "L"}
      [] format = "GIF" -> {"P", "L"}
      [] format = "TIFF" -> {"RGB", "RGBA", "PA"}

SourceFormats == {"JPEG", "PNG", "GIF", "TIFF"}

(* A source file: "ok", "truncated" (the header is read, decoding the      *)
(* pixels fails) or "unidentified" (no plugin recognises it).              *)
SourceFiles ==
    {f \in [state : {"ok", "truncated"}, format : SourceFormats,
            mode : {"RGB", "RGBA", "LA", "P", "PA", "L"},
            size : (1..ImgDim) \X (1..ImgDim)] :
        f.mode \in OpenModes(f.format)}
    \cup {[state |-> "unidentified", format |-> "None", mode |-> "None",
           size |-> <<1, 1>>]}

(* The file name of a source: a base and the extension of its format.      *)
SourceName(file) ==
    CASE file.format = "JPEG" -> <<"a", ".", "j", "p", "g">>
      [] file.format = "PNG" -> <<"a", ".", "p", "n", "g">>
      [] file.format = "GIF" -> <<"a", ".", "g", "i", "f">>
      [] file.format = "TIFF" -> <<"a", ".", "t", "i", "f", "f">>
      [] OTHER -> <<"a", ".", "j", "p", "g">>

ImageSettings ==
    [resize : BOOLEAN, max_width : 0..ImgBound, max_height : 0..ImgBound,
     convert_format : ConvertOptions, preserve_names : BOOLEAN]

NoImage == [format |-> "None", mode |-> "None", size |-> <<0, 0>>]

InitImage ==
    /\ AppInit
    /\ callPc = "img_open"
    /\ call \in [file : SourceFiles, settings : ImageSettings]
    /\ ret = [img |-> NoImage, loaded |-> FALSE, output_format |-> "None",
              output_filename |-> <<>>, encoded |-> "None",
              result |-> "none", raised |-> "none", message |-> "none"]

(* The exceptions the steps raise, all subclasses of Exception.            *)
ExceptionClasses == {"UnidentifiedImageError", "OSError", "ValueError"}

(* Variant of caught: the clause is except OSError.                        *)
caught_oserror_only(exc) == exc \in {"UnidentifiedImageError", "OSError"}

(* except Exception catches every subclass of Exception.                   *)
caught(exc) == exc \in ExceptionClasses

(* A step raises exc with a message: the except clause returns False, an   *)
(* exception it does not catch leaves optimize_image.                      *)
Raise(exc, message) ==
    /\ ret' = [ret EXCEPT !.raised = exc,
                          !.message = message,
                          !.result = IF caught(exc) THEN "False" ELSE "none"]
    /\ callPc' = IF caught(exc) THEN "img_returned" ELSE "img_escaped"

(* img = Image.open(file_path): reads the header, not the pixels.          *)
open_image ==
    /\ callPc = "img_open"
    /\ IF call.file.state = "unidentified"
       THEN Raise("UnidentifiedImageError", "cannot identify image file")
       ELSE /\ ret' = [ret EXCEPT !.img = [format |-> call.file.format,
                                           mode |-> call.file.mode,
                                           size |-> call.file.size]]
            /\ callPc' = "img_resize"
    /\ UNCHANGED <<appVars, call>>

(* The resize step.  img.resize loads the pixels, rejects a size below one *)
(* pixel and returns a new image, which has the mode of the old one and no *)
(* format.                                                                 *)
resize_opened ==
    /\ callPc = "img_resize"
    /\ LET w == ret.img.size[1]
           h == ret.img.size[2]
           mw == call.settings.max_width
           mh == call.settings.max_height
       IN  IF call.settings.resize /\ needs_resize(w, h, mw, mh)
           THEN \E size \in new_sizes(w, h, mw, mh) :
                    IF call.file.state = "truncated"
                    THEN Raise("OSError", "image file is truncated")
                    ELSE IF size[1] < 1 \/ size[2] < 1
                    THEN Raise("ValueError", "height and width must be > 0")
                    ELSE /\ ret' = [ret EXCEPT
                                      !.img = [format |-> "None",
                                               mode |-> ret.img.mode,
                                               size |-> size],
                                      !.loaded = TRUE]
                         /\ callPc' = "img_format"
           ELSE /\ ret' = ret
                /\ callPc' = "img_format"
    /\ UNCHANGED <<appVars, call>>

(* output_format: the target of the settings in upper case, else the       *)
(* format of img, else PNG.                                                *)
output_format_of(format, convert_format) ==
    IF convert_format # "original"
    THEN CASE convert_format = "jpg" -> "JPG"
           [] convert_format = "png" -> "PNG"
           [] convert_format = "webp" -> "WEBP"
    ELSE IF format = "None" THEN "PNG" ELSE format

determine_format ==
    /\ callPc = "img_format"
    /\ ret' = [ret EXCEPT
                 !.output_format =
                     output_format_of(ret.img.format,
                                      call.settings.convert_format)]
    /\ callPc' = "img_name"
    /\ UNCHANGED <<appVars, call>>

(* The naming step; the clock is read when names are not preserved.        *)
determine_filename ==
    /\ callPc = "img_name"
    /\ \E timestamp \in IF call.settings.preserve_names
                        THEN {0} ELSE 0..MaxTime :
           ret' = [ret EXCEPT
                     !.output_filename =
                         output_filename(SourceName(call.file),
                                         call.settings.convert_format,
                                         call.settings.preserve_names,
                                         timestamp)]
    /\ callPc' = "img_save"
    /\ UNCHANGED <<appVars, call>>

(* The mode handed to the JPEG encoder: the three modes of the test are    *)
(* pasted on a white RGB background.                                       *)
jpeg_mode(mode) == IF mode \in {"RGBA", "LA", "P"} THEN "RGB" ELSE mode

(* The encoder of the branch taken for output_format.                      *)
encoder_of(output_format) ==
    IF output_format \in {"JPEG", "JPG"} THEN "JPEG" ELSE output_format

(* The encoder cannot write the mode (OSError "cannot write mode").        *)
cannot_write(encoder, mode) ==
    \/ encoder = "JPEG" /\ mode \notin {"RGB", "L"}
    \/ encoder = "PNG" /\ mode = "PA"

(* The save step: the pixels are loaded if they were not, the image is     *)
(* flattened for JPEG, encoded and written; the write can fail.            *)
save_image ==
    /\ callPc = "img_save"
    /\ LET encoder == encoder_of(ret.output_format)
           mode == IF encoder = "JPEG"
                   THEN jpeg_mode(ret.img.mode) ELSE ret.img.mode
       IN  \E write_fails \in BOOLEAN :
               IF call.file.state = "truncated" /\ ~ret.loaded
               THEN Raise("OSError", "image file is truncated")
               ELSE IF cannot_write(encoder, mode)
               THEN Raise("OSError", "cannot write mode")
               ELSE IF write_fails
               THEN Raise("OSError", "cannot write file")
               ELSE /\ ret' = [ret EXCEPT
                                 !.img = [ret.img EXCEPT !.mode = mode],
                                 !.loaded = TRUE,
                                 !.encoded = encoder,
                                 !.result = "True"]
                    /\ callPc' = "img_returned"
    /\ UNCHANGED <<appVars, call>>

NextImage ==
    \/ open_image
    \/ resize_opened
    \/ determine_format
    \/ determine_filename
    \/ save_image

SpecImage == InitImage /\ [][NextImage]_vars

(* C13: optimize_image never raises past its boundary: a failure of any    *)
(* step becomes the result False, and a call that ended returned True or   *)
(* False.                                                                  *)
C13_NeverRaisesPastBoundary ==
    /\ callPc # "img_escaped"
    /\ callPc = "img_returned" => ret.result \in {"True", "False"}
    /\ ret.raised # "none" =>
           (callPc = "img_returned" /\ ret.result = "False")
    /\ ret.result = "True" => (ret.raised = "none" /\ ret.encoded # "None")

C13_Witness ==
    /\ callPc = "img_returned"
    /\ ret.result = "False"
    /\ ret.raised = "ValueError"
    /\ ret.img.format # "None"

(* C19: with the target format "original" the output is encoded in the     *)
(* format detected for the source file, and in PNG only when none was      *)
(* detected, whether or not the resize step replaced the image.            *)
C19_OriginalKeepsSourceFormat ==
    (/\ callPc = "img_returned"
     /\ ret.result = "True"
     /\ call.settings.convert_format = "original") =>
        ret.encoded = IF call.file.format = "None"
                      THEN "PNG" ELSE call.file.format

(* The source of the call lies within both bounds.                         *)
FitsBounds ==
    /\ call.size[1] <= call.max_width
    /\ call.size[2] <= call.max_height

(* C21: the image is never upscaled: with resize enabled an image within   *)
(* both bounds keeps its dimensions, and whenever the resize triggers      *)
(* neither new dimension is larger than the source's.                      *)
C21_NeverUpscaled ==
    (callPc = "resized" /\ call.resize) =>
        /\ FitsBounds => (~ret.replaced /\ ret.size = call.size)
        /\ ret.replaced =>
               /\ ~FitsBounds
               /\ ret.size[1] <= call.size[1]
               /\ ret.size[2] <= call.size[2]

C21_Witness ==
    /\ callPc = "resized"
    /\ call.resize
    /\ ret.replaced
    /\ call.size[1] > call.max_width
    /\ call.size[2] < call.max_height
    /\ ret.size[2] >= 1
    /\ ret.size[2] < call.size[2]

(* C26: whenever the resize triggers, for positive bounds, both computed   *)
(* dimensions are at least 1, also for an image that exceeds one bound     *)
(* only or has an extreme aspect ratio.                                    *)
C26_NewSizeAtLeastOne ==
    (/\ callPc = "resized"
     /\ ret.replaced
     /\ call.max_width >= 1
     /\ call.max_height >= 1) =>
        (ret.size[1] >= 1 /\ ret.size[2] >= 1)

(* The modes that carry an alpha channel or are palette-indexed.           *)
AlphaOrPaletteModes == {"RGBA", "LA", "PA", "P"}

(* C23: whenever the output is JPEG and the mode of the image carries an   *)
(* alpha channel or is palette-indexed (RGBA, LA, PA, P), the image is     *)
(* flattened to RGB before encoding: the save never fails because of the   *)
(* mode, and what is encoded is RGB.                                       *)
C23_JpegFlattensAlphaAndPalette ==
    (/\ callPc = "img_returned"
     /\ encoder_of(ret.output_format) = "JPEG"
     /\ call.file.mode \in AlphaOrPaletteModes) =>
        /\ ret.message # "cannot write mode"
        /\ ret.result = "True" => ret.img.mode = "RGB"

(* C25: exactly one of the start and cancel buttons is enabled: cancel     *)
(* from the start of a run until its outcome is delivered, start           *)
(* otherwise; and the processing flag is set only while start is disabled  *)
(* and a started worker's outcome is not yet delivered.                    *)
C25_ExactlyOneButtonEnabled ==
    /\ (optimize_btn = "normal") # (cancel_btn = "normal")
    /\ optimize_btn \in {"normal", "disabled"}
    /\ cancel_btn \in {"normal", "disabled"}
    /\ RunActive <=> cancel_btn = "normal"
    /\ processing => (optimize_btn = "disabled" /\ RunActive /\ pc # "none")

C25_Witness ==
    /\ ~processing
    /\ pc = "done"
    /\ afterQueue # <<>>
    /\ cancel_btn = "normal"
    /\ optimize_btn = "disabled"
    /\ earlierCancel

(***************************************************************************)
(* The loop of process_images over a batch of any length, for the cadence  *)
(* of its notifications.  The result of each item is any of the three      *)
(* kinds, and cancel may clear the flag at any time.                       *)
(***************************************************************************)
MaxBatch == 6       \* longest batch

ItemKinds == {"valid", "corrupt", "raises"}

InitBatch ==
    /\ AppInit
    /\ callPc = "batch_loop"
    /\ call \in [total_files : 1..MaxBatch]
    /\ ret = [processing |-> TRUE, i |-> 0, processed |-> 0,
              successful |-> 0, failed |-> 0, progress |-> 0,
              snapshots |-> {}, statuses |-> {}]

(* The loop head: the next item is fetched, or the loop is left.           *)
batch_next ==
    /\ callPc = "batch_loop"
    /\ callPc' = IF loop_step(ret.i, call.total_files, ret.processing) = "body"
                 THEN "batch_item" ELSE "batch_done"
    /\ ret' = IF loop_step(ret.i, call.total_files, ret.processing) = "body"
              THEN [ret EXCEPT !.i = ret.i + 1]
              ELSE ret
    /\ UNCHANGED <<appVars, call>>

(* The body for the item fetched: its result is counted, the progress      *)
(* value is set, and the status text when it is due for the item's index.  *)
batch_item ==
    /\ callPc = "batch_item"
    /\ \E kind \in ItemKinds :
           LET counts == count_result(kind, ret.successful, ret.failed)
           IN  ret' = [ret EXCEPT
                         !.successful = counts[1],
                         !.failed = counts[2],
                         !.processed = ret.processed + 1,
                         !.progress = ((ret.processed + 1) * 100)
                                          \div call.total_files,
                         !.snapshots = ret.snapshots \cup {ret.i},
                         !.statuses =
                             IF status_due(ret.i - 1, call.total_files)
                             THEN ret.statuses \cup {ret.i}
                             ELSE ret.statuses]
    /\ callPc' = "batch_loop"
    /\ UNCHANGED <<appVars, call>>

(* cancel_optimization while the batch runs.                               *)
batch_cancel ==
    /\ callPc \in {"batch_loop", "batch_item"}
    /\ ret.processing
    /\ ret' = [ret EXCEPT !.processing = FALSE]
    /\ UNCHANGED <<appVars, call, callPc>>

NextBatch ==
    \/ batch_next
    \/ batch_item
    \/ batch_cancel

SpecBatch == InitBatch /\ [][NextBatch]_vars

(* C22: the progress value is set after every processed item, and the      *)
(* status text with the counts is set after an item exactly when it is a   *)
(* 5th item of the batch (the 5th, 10th, ...) or the last item.            *)
C22_StatusEveryFifthAndLast ==
    callPc \in {"batch_loop", "batch_item", "batch_done"} =>
        /\ ret.snapshots = 1..ret.processed
        /\ \A k \in 1..ret.processed :
               k \in ret.statuses <=> (k % 5 = 0 \/ k = call.total_files)

(***************************************************************************)
(* The application with fair scheduling: the worker thread takes its next  *)
(* step when it has one (each transform returns), and the main loop runs   *)
(* an event posted with root.after.  What the user does is not forced.     *)
(***************************************************************************)
Fairness ==
    /\ WF_vars(worker_init)
    /\ WF_vars(worker_next)
    /\ WF_vars(worker_begin_item)
    /\ WF_vars(worker_finish_item)
    /\ WF_vars(finish_optimization)

SpecFair == Init /\ [][Next]_vars /\ Fairness

(* The application is idle: no worker, no outcome pending, start enabled.  *)
Idle ==
    /\ ~RunActive
    /\ ~processing
    /\ optimize_btn = "normal"
    /\ cancel_btn = "disabled"

====
